---- MODULE Spec2Model ----
(***************************************************************************)
(* Model of src/app.py: the self-introduction scorer.  The rubric          *)
(* functions are operators computed as the Python computes them, on        *)
(* character strings; the Streamlit script is the state machine that calls *)
(* score_transcript from the score-button handler.                         *)
(*                                                                         *)
(* Numbers.  Python computes the ratios (words per minute, filler rate,    *)
(* type-token ratio) in binary floating point; here a ratio is the exact   *)
(* fraction [n |-> numerator, d |-> denominator] with d > 0, and a         *)
(* comparison with a rubric boundary is done by cross-multiplication.      *)
(* A value that may be Python's None is None (the empty tuple) or, for an   *)
(* integer, Some(k).                                                       *)
(***************************************************************************)
EXTENDS Integers, Sequences, FiniteSets, TLC

VARIABLES
    transcript,      \* content of the transcript text_area (app.py:483)
    edits,           \* number of fragments typed into the text_area so far
    duration_input,  \* content of the duration text_input (app.py:491)
    score_button,    \* value of the score button in the current run (app.py:497)
    view,            \* what the last script run rendered below the rule
    warning,         \* whether st.warning was shown (app.py:510)
    collab,          \* the collaborators' responses in the last scoring call
    result,          \* the dict returned by score_transcript, or None
    call             \* a direct call of one rubric function: its arguments and return value

vars ==
    <<transcript, edits, duration_input, score_button, view, warning, collab,
      result, call>>

None == <<>>

Some(k) == <<k>>

Get(o) == o[1]

(***************************************************************************)
(* Characters and strings                                                  *)
(***************************************************************************)

At(s, i) == SubSeq(s, i, i)

UpperLetters == "ABCDEFGHIJKLMNOPQRSTUVWXYZ"

LowerLetters == "abcdefghijklmnopqrstuvwxyz"

Digits == "0123456789"

\* the characters \w matches (ASCII)
WordChars ==
    {"A", "B", "C", "D", "E", "F", "G", "H", "I", "J", "K", "L", "M",
     "N", "O", "P", "Q", "R", "S", "T", "U", "V", "W", "X", "Y", "Z",
     "a", "b", "c", "d", "e", "f", "g", "h", "i", "j", "k", "l", "m",
     "n", "o", "p", "q", "r", "s", "t", "u", "v", "w", "x", "y", "z",
     "0", "1", "2", "3", "4", "5", "6", "7", "8", "9", "_"}

WhitespaceChars == {" ", "\t", "\n", "\r", "\f"}

Min(S) == CHOOSE x \in S : \A y \in S : x <= y

UpperChars ==
    {"A", "B", "C", "D", "E", "F", "G", "H", "I", "J", "K", "L", "M",
     "N", "O", "P", "Q", "R", "S", "T", "U", "V", "W", "X", "Y", "Z"}

\* str.lower() on one character
LowerChar(c) ==
    IF c \in UpperChars
    THEN At(LowerLetters, CHOOSE i \in 1..26 : At(UpperLetters, i) = c)
    ELSE c

\* characters lo..hi of s, lower-cased (the range is halved: the depth of
\* the evaluation is logarithmic in the length)
RECURSIVE LowerRange(_, _, _)
LowerRange(s, lo, hi) ==
    IF lo > hi THEN ""
    ELSE IF lo = hi THEN LowerChar(At(s, lo))
    ELSE LET mid == (lo + hi) \div 2
         IN  LowerRange(s, lo, mid) \o LowerRange(s, mid + 1, hi)

\* str.lower()
lower(s) == LowerRange(s, 1, Len(s))

\* str.strip(): leading and trailing whitespace removed
strip(s) ==
    LET keep == {i \in 1..Len(s) : At(s, i) \notin WhitespaceChars}
    IN  IF keep = {} THEN ""
        ELSE SubSeq(s, Min(keep), CHOOSE j \in keep : \A k \in keep : k <= j)

\* str.find(p): 0-based index of the first occurrence, -1 when there is none
find(s, p) ==
    LET at == {i \in 0..(Len(s) - Len(p)) : SubSeq(s, i + 1, i + Len(p)) = p}
    IN  IF at = {} THEN -1 ELSE Min(at)

\* p in s
contains(s, p) == find(s, p) # -1

\* re.search(r"\b" + p + r"\b", s) for a phrase p that starts and ends with
\* a word character: an occurrence with no word character on either side
search_word(s, p) ==
    \E i \in 0..(Len(s) - Len(p)) :
        /\ SubSeq(s, i + 1, i + Len(p)) = p
        /\ (i = 0 \/ At(s, i) \notin WordChars)
        /\ (i + Len(p) = Len(s) \/ At(s, i + Len(p) + 1) \notin WordChars)

(***************************************************************************)
(* Text utilities (app.py:90-102)                                          *)
(***************************************************************************)

\* last position of the run of word characters that holds position j
RECURSIVE WordEnd(_, _)
WordEnd(s, j) ==
    IF j = Len(s) \/ At(s, j + 1) \notin WordChars THEN j ELSE WordEnd(s, j + 1)

\* the maximal runs of word characters of s that start in lo..hi, in order
RECURSIVE WordsFrom(_, _, _)
WordsFrom(s, lo, hi) ==
    IF lo > hi THEN <<>>
    ELSE IF lo = hi
    THEN IF At(s, lo) \in WordChars /\ (lo = 1 \/ At(s, lo - 1) \notin WordChars)
         THEN <<SubSeq(s, lo, WordEnd(s, lo))>>
         ELSE <<>>
    ELSE LET mid == (lo + hi) \div 2
         IN  WordsFrom(s, lo, mid) \o WordsFrom(s, mid + 1, hi)

\* re.findall(r"\b\w+\b", s)
findall_words(s) == WordsFrom(s, 1, Len(s))

\* faulty variant: the text is not lower-cased before it is tokenized
tokenize_words_CaseSensitive(text) == findall_words(text)

tokenize_words(text) == findall_words(lower(text))

compute_word_count(text) == Len(tokenize_words(text))

\* patterns are the phrases of the r"\bphrase\b" regular expressions
find_any_pattern(text_lower, patterns) ==
    \E i \in 1..Len(patterns) : search_word(text_lower, patterns[i])

(***************************************************************************)
(* Rubric constants (app.py:40-84)                                         *)
(***************************************************************************)

FILLER_WORDS ==
    {"um", "uh", "like", "you know", "so", "actually", "basically",
     "right", "i mean", "well", "kinda", "sort of", "okay", "ok",
     "hmm", "ah"}

\* topic -> the phrases of its r"\bphrase\b" patterns
MUST_HAVE_PATTERNS ==
    [name |-> <<"my name is", "i am", "this is">>,
     age |-> <<"years old", "year old", "age">>,
     school_class |-> <<"school", "class", "grade", "college", "university">>,
     family |-> <<"family", "mother", "father", "parents", "sister", "brother">>,
     hobbies |-> <<"hobby", "hobbies", "i like to", "i love to", "in my free time">>]

MUST_HAVE_POINTS == 4

GOOD_TO_HAVE_PATTERNS ==
    [about_family |-> <<"family", "mother", "father", "parents">>,
     origin_location |-> <<"i am from", "i'm from", "we live in", "from">>,
     ambition_goal |-> <<"want to", "my goal", "my dream", "aspire", "ambition">>,
     interesting_fact |-> <<"fun fact", "interesting", "unique">>,
     strengths_achievements |-> <<"strength", "strong in", "achievement", "won", "award">>]

GOOD_TO_HAVE_POINTS == 2

NORMAL_SALUTATIONS == <<"hi", "hello">>

GOOD_SALUTATIONS ==
    <<"good morning", "good afternoon", "good evening",
      "good day", "hello everyone", "hi everyone">>

EXCELLENT_PHRASES ==
    <<"i am excited to introduce", "feeling great",
      "i'm excited to introduce", "i am excited to be here">>

MAX_POINTS ==
    [content_structure |-> 40, speech_rate |-> 10, language_grammar |-> 20,
     clarity |-> 15, engagement |-> 15]

(***************************************************************************)
(* Salutation, keyword presence, flow (app.py:108-183)                     *)
(***************************************************************************)

get_salutation_score(text) ==
    LET tl == lower(text)
    IN  IF \E i \in 1..Len(EXCELLENT_PHRASES) : contains(tl, EXCELLENT_PHRASES[i])
        THEN [score |-> 5,
              reason |-> "Excellent salutation (excited/feeling great) detected."]
        ELSE IF \E i \in 1..Len(GOOD_SALUTATIONS) : contains(tl, GOOD_SALUTATIONS[i])
        THEN [score |-> 4,
              reason |-> "Good salutation (Good morning/afternoon/evening etc.) detected."]
        ELSE IF \E i \in 1..Len(NORMAL_SALUTATIONS) : search_word(tl, NORMAL_SALUTATIONS[i])
        THEN [score |-> 2, reason |-> "Normal salutation (Hi/Hello) detected."]
        ELSE [score |-> 0, reason |-> "No salutation detected."]

min2(a, b) == IF a <= b THEN a ELSE b

max2(a, b) == IF a >= b THEN a ELSE b

get_keyword_presence_score(text) ==
    LET tl == lower(text)
        must_have_present ==
            [key \in DOMAIN MUST_HAVE_PATTERNS |->
                find_any_pattern(tl, MUST_HAVE_PATTERNS[key])]
        good_to_have_present ==
            [key \in DOMAIN GOOD_TO_HAVE_PATTERNS |->
                find_any_pattern(tl, GOOD_TO_HAVE_PATTERNS[key])]
        must_score ==
            Cardinality({k \in DOMAIN must_have_present : must_have_present[k]})
                * MUST_HAVE_POINTS
        good_score ==
            Cardinality({k \in DOMAIN good_to_have_present : good_to_have_present[k]})
                * GOOD_TO_HAVE_POINTS
    IN  [score |-> min2(must_score, 20) + min2(good_score, 10),
         must_have_present |-> must_have_present,
         good_to_have_present |-> good_to_have_present]

\* first_index_of_any with `if pos > 0`: a phrase at the start of the text
\* is taken as not found
first_index_of_any_SkipsStart(tl, phrases) ==
    LET idxs == {find(tl, phrases[i]) : i \in 1..Len(phrases)} \ {-1, 0}
    IN  IF idxs = {} THEN None ELSE Some(Min(idxs))

\* the nested first_index_of_any of get_flow_score: None when no phrase occurs
first_index_of_any(tl, phrases) ==
    LET idxs == {find(tl, phrases[i]) : i \in 1..Len(phrases)} \ {-1}
    IN  IF idxs = {} THEN None ELSE Some(Min(idxs))

get_flow_score(text) ==
    LET tl == lower(text)
        sal_index == first_index_of_any(tl, NORMAL_SALUTATIONS \o GOOD_SALUTATIONS)
        basic_index ==
            first_index_of_any(tl,
                <<"my name is", "i am", "i'm", "years old", "school", "class", "grade">>)
        additional_index ==
            first_index_of_any(tl,
                <<"hobby", "hobbies", "fun fact", "goal", "dream", "family">>)
        closing_index ==
            first_index_of_any(tl,
                <<"thank you", "thanks for listening", "that's all", "that is all">>)
    IN  IF \/ sal_index = None \/ basic_index = None
           \/ additional_index = None \/ closing_index = None
        THEN [score |-> 0,
              reason |-> "Order not clearly followed (some sections missing)."]
        ELSE IF /\ Get(sal_index) <= Get(basic_index)
                /\ Get(basic_index) <= Get(additional_index)
                /\ Get(additional_index) <= Get(closing_index)
        THEN [score |-> 5,
              reason |-> "Order followed: Salutation -> Basic Details -> Additional Details -> Closing."]
        ELSE [score |-> 0, reason |-> "Order not followed as expected."]

(***************************************************************************)
(* Floating-point values: a finite value is the exact fraction n/d with    *)
(* d > 0 in lowest terms; nan and the infinities are values of their own.  *)
(* Every comparison with a nan is false, as in Python.                     *)
(***************************************************************************)

RECURSIVE GCD(_, _)
GCD(a, b) == IF b = 0 THEN a ELSE GCD(b, a % b)

Abs(x) == IF x < 0 THEN -x ELSE x

Num(n, d) ==
    LET g == GCD(Abs(n), d) IN [k |-> "num", n |-> n \div g, d |-> d \div g]

NaN == [k |-> "nan", n |-> 0, d |-> 1]

Inf(sign) == [k |-> "inf", n |-> sign, d |-> 1]

\* a <= b
Le(a, b) ==
    IF a.k = "nan" \/ b.k = "nan" THEN FALSE
    ELSE IF a.k = "inf" THEN a.n < 0 \/ (b.k = "inf" /\ b.n > 0)
    ELSE IF b.k = "inf" THEN b.n > 0
    ELSE a.n * b.d <= b.n * a.d

\* a < b
Lt(a, b) == a.k # "nan" /\ b.k # "nan" /\ ~Le(b, a)

\* bool(x) of an Optional[float]: None and zero are false
Truthy(x) == x # None /\ ~(x.k = "num" /\ x.n = 0)

\* x / c for a float x and a positive whole number c
DivBy(x, c) == IF x.k = "num" THEN Num(x.n, x.d * c) ELSE x

\* w / y for a whole number w >= 0 and a float y that is not zero
IntOver(w, y) ==
    IF y.k = "nan" THEN NaN
    ELSE IF y.k = "inf" THEN Num(0, 1)
    ELSE IF y.n < 0 THEN Num(-(w * y.d), -y.n)
    ELSE Num(w * y.d, y.n)

\* round(x, places): to the nearest multiple of 10^-places, a tie to the even one
Pow10(places) == IF places = 2 THEN 100 ELSE IF places = 3 THEN 1000 ELSE 1

round(x, places) ==
    IF x.k # "num" THEN x
    ELSE LET scaled == x.n * Pow10(places)
             q == scaled \div x.d
             twice == 2 * (scaled % x.d)
             up == twice > x.d \/ (twice = x.d /\ q % 2 = 1)
         IN  Num(IF up THEN q + 1 ELSE q, Pow10(places))

(***************************************************************************)
(* Speech rate (app.py:189-205)                                            *)
(***************************************************************************)

\* faulty variant: only a missing or zero duration is refused
no_duration_NoSignCheck(duration_seconds) == ~Truthy(duration_seconds)

\* line 190: not duration_seconds or duration_seconds <= 0
no_duration(duration_seconds) ==
    ~Truthy(duration_seconds) \/ Le(duration_seconds, Num(0, 1))

\* faulty variant: the ideal band starts at 110
speech_rate_band_Ideal110(wpm) ==
    IF Lt(Num(161, 1), wpm)
    THEN [score |-> Some(2), wpm |-> wpm, feedback |-> "Too fast (>161 WPM)."]
    ELSE IF Le(Num(141, 1), wpm) /\ Le(wpm, Num(160, 1))
    THEN [score |-> Some(6), wpm |-> wpm, feedback |-> "Fast (141-160 WPM)."]
    ELSE IF Le(Num(110, 1), wpm) /\ Le(wpm, Num(140, 1))
    THEN [score |-> Some(10), wpm |-> wpm, feedback |-> "Ideal (111-140 WPM)."]
    ELSE IF Le(Num(81, 1), wpm) /\ Le(wpm, Num(110, 1))
    THEN [score |-> Some(6), wpm |-> wpm, feedback |-> "Slow (81-110 WPM)."]
    ELSE [score |-> Some(2), wpm |-> wpm, feedback |-> "Too slow (<80 WPM)."]

\* lines 196-205: the result for a words-per-minute value (the dashes of
\* the feedback texts are written "-")
speech_rate_band(wpm) ==
    IF Lt(Num(161, 1), wpm)
    THEN [score |-> Some(2), wpm |-> wpm, feedback |-> "Too fast (>161 WPM)."]
    ELSE IF Le(Num(141, 1), wpm) /\ Le(wpm, Num(160, 1))
    THEN [score |-> Some(6), wpm |-> wpm, feedback |-> "Fast (141-160 WPM)."]
    ELSE IF Le(Num(111, 1), wpm) /\ Le(wpm, Num(140, 1))
    THEN [score |-> Some(10), wpm |-> wpm, feedback |-> "Ideal (111-140 WPM)."]
    ELSE IF Le(Num(81, 1), wpm) /\ Le(wpm, Num(110, 1))
    THEN [score |-> Some(6), wpm |-> wpm, feedback |-> "Slow (81-110 WPM)."]
    ELSE [score |-> Some(2), wpm |-> wpm, feedback |-> "Too slow (<80 WPM)."]

get_speech_rate_score(word_count, duration_seconds) ==
    IF no_duration(duration_seconds)
    THEN [score |-> None, wpm |-> None,
          feedback |-> "Duration not provided - speech rate not scored."]
    ELSE speech_rate_band(IntOver(word_count, DivBy(duration_seconds, 60)))

(***************************************************************************)
(* Collaborators.  A call of grammar_tool.check or of                      *)
(* sentiment_analyzer.polarity_scores ends in one of three ways: it        *)
(* returns well-formed data ("ok": the number n of matches, or the         *)
(* positive probability n in thousandths), it returns data the caller      *)
(* cannot use ("malformed": no length, no "pos" key), or it raises.        *)
(***************************************************************************)

Ok(n) == [k |-> "ok", n |-> n]

Malformed == [k |-> "malformed", n |-> 0]

Raises == [k |-> "raise", n |-> 0]

NotCalled == [k |-> "not called", n |-> 0]

\* an exception leaving a function
Raised(e) == [exception |-> e]

IsRaised(r) == "exception" \in DOMAIN r

(***************************************************************************)
(* Grammar, vocabulary, clarity, engagement (app.py:211-315).  The         *)
(* formatted feedback texts of these four restate the returned             *)
(* measurements and are left out.                                          *)
(***************************************************************************)

\* lines 223-232: the score of a grammar quality
grammar_band(grammar_quality) ==
    IF Lt(Num(9, 10), grammar_quality) THEN 10
    ELSE IF Le(Num(7, 10), grammar_quality) /\ Le(grammar_quality, Num(89, 100)) THEN 8
    ELSE IF Le(Num(5, 10), grammar_quality) /\ Le(grammar_quality, Num(69, 100)) THEN 6
    ELSE IF Le(Num(3, 10), grammar_quality) /\ Le(grammar_quality, Num(49, 100)) THEN 4
    ELSE 2

\* check: how grammar_tool.check(text) ends
get_grammar_score(text, word_count, check) ==
    IF word_count = 0
    THEN [score |-> 0, error_count |-> 0, errors_per_100 |-> Num(0, 1)]
    ELSE IF check.k = "raise" THEN Raised("grammar_tool.check")
    ELSE IF check.k = "malformed" THEN Raised("TypeError")
    ELSE LET error_count == check.n
             errors_per_100 == Num(error_count * 100, word_count)
             capped == IF Le(DivBy(errors_per_100, 10), Num(1, 1))
                       THEN DivBy(errors_per_100, 10) ELSE Num(1, 1)
             grammar_quality == Num(capped.d - capped.n, capped.d)
         IN  [score |-> grammar_band(grammar_quality),
              error_count |-> error_count,
              errors_per_100 |-> errors_per_100]

\* lines 250-259: the score of a type-token ratio
vocabulary_band(ttr) ==
    IF Le(Num(9, 10), ttr) /\ Le(ttr, Num(1, 1)) THEN 10
    ELSE IF Le(Num(7, 10), ttr) /\ Le(ttr, Num(89, 100)) THEN 8
    ELSE IF Le(Num(5, 10), ttr) /\ Le(ttr, Num(69, 100)) THEN 6
    ELSE IF Le(Num(3, 10), ttr) /\ Le(ttr, Num(49, 100)) THEN 4
    ELSE 2

get_vocabulary_score(text) ==
    LET tokens == tokenize_words(text)
        word_count == Len(tokens)
    IN  IF word_count = 0 THEN [score |-> 0, ttr |-> Num(0, 1)]
        ELSE LET distinct_count == Cardinality({tokens[i] : i \in 1..word_count})
                 ttr == Num(distinct_count, word_count)
             IN  [score |-> vocabulary_band(ttr), ttr |-> ttr]

\* faulty variant: the first band ends below 3
clarity_band_Below3(filler_rate) ==
    IF Le(Num(0, 1), filler_rate) /\ Lt(filler_rate, Num(3, 1)) THEN 15
    ELSE IF Le(Num(4, 1), filler_rate) /\ Le(filler_rate, Num(6, 1)) THEN 12
    ELSE IF Le(Num(7, 1), filler_rate) /\ Le(filler_rate, Num(9, 1)) THEN 9
    ELSE IF Le(Num(10, 1), filler_rate) /\ Le(filler_rate, Num(12, 1)) THEN 6
    ELSE 3

\* lines 281-290: the score of a filler rate (a percentage)
clarity_band(filler_rate) ==
    IF Le(Num(0, 1), filler_rate) /\ Le(filler_rate, Num(3, 1)) THEN 15
    ELSE IF Le(Num(4, 1), filler_rate) /\ Le(filler_rate, Num(6, 1)) THEN 12
    ELSE IF Le(Num(7, 1), filler_rate) /\ Le(filler_rate, Num(9, 1)) THEN 9
    ELSE IF Le(Num(10, 1), filler_rate) /\ Le(filler_rate, Num(12, 1)) THEN 6
    ELSE 3

get_clarity_score(text) ==
    LET tokens == tokenize_words(text)
        word_count == Len(tokens)
    IN  IF word_count = 0
        THEN [score |-> 0, filler_count |-> 0, filler_rate |-> Num(0, 1)]
        ELSE LET filler_count ==
                     Cardinality({i \in 1..word_count : tokens[i] \in FILLER_WORDS})
                 filler_rate == Num(filler_count * 100, word_count)
             IN  [score |-> clarity_band(filler_rate),
                  filler_count |-> filler_count,
                  filler_rate |-> filler_rate]

\* lines 303-312: the score of a positive probability
engagement_band(pos_prob) ==
    IF Le(Num(9, 10), pos_prob) THEN 15
    ELSE IF Le(Num(7, 10), pos_prob) /\ Le(pos_prob, Num(89, 100)) THEN 12
    ELSE IF Le(Num(5, 10), pos_prob) /\ Le(pos_prob, Num(69, 100)) THEN 9
    ELSE IF Le(Num(3, 10), pos_prob) /\ Le(pos_prob, Num(49, 100)) THEN 6
    ELSE 3

\* polarity: how sentiment_analyzer.polarity_scores(text) ends
get_engagement_score(text, polarity) ==
    IF polarity.k = "raise" THEN Raised("polarity_scores")
    ELSE IF polarity.k = "malformed" THEN Raised("KeyError")
    ELSE LET pos_prob == Num(polarity.n, 1000)
         IN  [score |-> engagement_band(pos_prob), pos_prob |-> pos_prob]

(***************************************************************************)
(* The scoring pipeline (app.py:321-435)                                   *)
(***************************************************************************)

content_structure_total(sal_score, kw_score, flow_score) ==
    sal_score + kw_score + flow_score

\* line 333
sr_total_for_overall(sr_score) == IF sr_score # None THEN Get(sr_score) ELSE 0

\* faulty variant: the vocabulary score is not added
language_grammar_total_GrammarOnly(grammar_score, vocab_score) == grammar_score

language_grammar_total(grammar_score, vocab_score) == grammar_score + vocab_score

\* faulty variant: the speech rate is not added
overall_score_NoSpeechRate(cs_total, sr_total, lg_total, clarity_score, engagement_score_val) ==
    max2(0, min2(100, cs_total + lg_total + clarity_score + engagement_score_val))

\* lines 347-352: the sum, clamped to [0,100]; the sum is a whole number,
\* which round(overall, 2) returns as it is
overall_score(cs_total, sr_total, lg_total, clarity_score, engagement_score_val) ==
    max2(0, min2(100,
        cs_total + sr_total + lg_total + clarity_score + engagement_score_val))

\* check, polarity: how the two collaborators end when they are called.
\* The value is the returned dict, or Raised(e) when an exception leaves
\* the function: nothing in it catches one.
score_transcript(text, duration_seconds, check, polarity) ==
    LET word_count == compute_word_count(text)
        sal == get_salutation_score(text)
        kw == get_keyword_presence_score(text)
        flow == get_flow_score(text)
        cs_total == content_structure_total(sal.score, kw.score, flow.score)
        sr == get_speech_rate_score(word_count, duration_seconds)
        grammar == get_grammar_score(text, word_count, check)
        vocab == get_vocabulary_score(text)
        lg_total == language_grammar_total(grammar.score, vocab.score)
        clarity == get_clarity_score(text)
        engagement == get_engagement_score(text, polarity)
    IN  IF IsRaised(grammar) THEN grammar
        ELSE IF IsRaised(engagement) THEN engagement
        ELSE
        [overall_score |->
            overall_score(cs_total, sr_total_for_overall(sr.score), lg_total,
                          clarity.score, engagement.score),
         word_count |-> word_count,
         criteria |-> <<
            [name |-> "Content & Structure",
             final_score |-> cs_total,
             max_score |-> MAX_POINTS.content_structure,
             subcomponents |->
                [salutation |->
                    [score |-> sal.score, max_score |-> 5, feedback |-> sal.reason],
                 keyword_presence |->
                    [score |-> kw.score, max_score |-> 30,
                     must_have_present |-> kw.must_have_present,
                     good_to_have_present |-> kw.good_to_have_present],
                 flow |->
                    [score |-> flow.score, max_score |-> 5, feedback |-> flow.reason]]],
            [name |-> "Speech Rate",
             final_score |-> IF sr.score # None THEN Get(sr.score) ELSE 0,
             max_score |-> MAX_POINTS.speech_rate,
             wpm |-> IF sr.wpm # None THEN round(sr.wpm, 2) ELSE None,
             feedback |-> sr.feedback],
            [name |-> "Language & Grammar",
             final_score |-> lg_total,
             max_score |-> MAX_POINTS.language_grammar,
             subcomponents |->
                [grammar |->
                    [score |-> grammar.score, max_score |-> 10,
                     error_count |-> grammar.error_count,
                     errors_per_100_words |-> round(grammar.errors_per_100, 2)],
                 vocabulary |->
                    [score |-> vocab.score, max_score |-> 10,
                     ttr |-> IF word_count > 0 THEN round(vocab.ttr, 3) ELSE Num(0, 1)]]],
            [name |-> "Clarity",
             final_score |-> clarity.score,
             max_score |-> MAX_POINTS.clarity,
             subcomponents |->
                [filler_words |->
                    [score |-> clarity.score, max_score |-> 15,
                     filler_count |-> clarity.filler_count,
                     filler_rate_percent |-> round(clarity.filler_rate, 2)]]],
            [name |-> "Engagement",
             final_score |-> engagement.score,
             max_score |-> MAX_POINTS.engagement,
             subcomponents |->
                [sentiment |->
                    [score |-> engagement.score, max_score |-> 15,
                     positive_probability |-> round(engagement.pos_prob, 3)]]]
         >>]

(***************************************************************************)
(* float(duration_input) (app.py:508).  Modelled for the syntaxes          *)
(* [sign] digits [. digits], [sign] . digits, nan, inf and infinity, with  *)
(* surrounding whitespace; any other text is a ValueError (exponents and   *)
(* digit-group underscores are not modelled).                              *)
(***************************************************************************)

DigitChars == {"0", "1", "2", "3", "4", "5", "6", "7", "8", "9"}

DigitVal(c) == (CHOOSE i \in 1..10 : At(Digits, i) = c) - 1

RECURSIVE Pow(_, _)
Pow(b, e) == IF e = 0 THEN 1 ELSE b * Pow(b, e - 1)

\* the value of the digits among the first i characters of s
RECURSIVE DigitsValue(_, _)
DigitsValue(s, i) ==
    IF i = 0 THEN 0
    ELSE IF At(s, i) \in DigitChars
    THEN 10 * DigitsValue(s, i - 1) + DigitVal(At(s, i))
    ELSE DigitsValue(s, i - 1)

ValueError == Raised("ValueError")

float(s) ==
    LET t == strip(s)
        signed == t # "" /\ At(t, 1) \in {"+", "-"}
        sign == IF t # "" /\ At(t, 1) = "-" THEN -1 ELSE 1
        body == IF signed THEN SubSeq(t, 2, Len(t)) ELSE t
        dots == {i \in 1..Len(body) : At(body, i) = "."}
        digits == {i \in 1..Len(body) : At(body, i) \in DigitChars}
    IN  IF lower(body) = "nan" THEN NaN
        ELSE IF lower(body) \in {"inf", "infinity"} THEN Inf(sign)
        ELSE IF /\ digits # {}
                /\ Cardinality(dots) <= 1
                /\ Cardinality(dots) + Cardinality(digits) = Len(body)
        THEN Num(sign * DigitsValue(body, Len(body)),
                 Pow(10, Cardinality({i \in digits : \E j \in dots : j < i})))
        ELSE ValueError

(***************************************************************************)
(* Bounds and inputs                                                       *)
(***************************************************************************)

\* fragments typed into the transcript area, at most MaxEdits of them
MaxEdits == 2

Fragments ==
    {" ", "?! ", "Hi, I am Al. ", "My goal: FAMILY. Thank you. ", "Um, like, so. "}

\* texts of the duration field
DurationInputs == {"", "0", "-1.5", " 30 ", "abc", "nan"}

\* the grammar collaborator reports at most MaxIssues matches
MaxIssues == 1

GrammarOutcomes == {Raises, Malformed} \cup {Ok(n) : n \in 0..MaxIssues}

\* positive probabilities (thousandths) the sentiment collaborator returns
PosProbs == {0, 495, 700, 900}

SentimentOutcomes == {Raises, Malformed} \cup {Ok(p) : p \in PosProbs}

Failed(outcome) == outcome.k \in {"raise", "malformed"}

(***************************************************************************)
(* The Streamlit script (app.py:482-514).  Every interaction with a widget *)
(* runs the script again; score_button is True only in the run its click   *)
(* started, so a run started by an edit renders nothing below the rule.    *)
(***************************************************************************)

NoCollab == [grammar |-> NotCalled, sentiment |-> NotCalled]

Init ==
    /\ transcript = ""
    /\ edits = 0
    /\ duration_input = ""
    /\ score_button = FALSE
    /\ view = "none"
    /\ warning = FALSE
    /\ collab = NoCollab
    /\ result = None
    /\ call = None

\* a run starts: nothing is rendered yet and result is unbound
NewRun ==
    /\ view' = "none"
    /\ warning' = FALSE
    /\ collab' = NoCollab
    /\ result' = None

\* the user types into the transcript area; the run it starts skips line 501
EditTranscript ==
    \E f \in Fragments :
        /\ edits < MaxEdits
        /\ transcript' = transcript \o f
        /\ edits' = edits + 1
        /\ score_button' = FALSE
        /\ NewRun
        /\ UNCHANGED <<duration_input, call>>

\* the user changes the duration field; the run it starts skips line 501
EditDuration ==
    \E d \in DurationInputs :
        /\ d # duration_input
        /\ duration_input' = d
        /\ score_button' = FALSE
        /\ NewRun
        /\ UNCHANGED <<transcript, edits, call>>

\* the user clicks "Score My Introduction": a run starts with score_button True
ClickScore ==
    /\ score_button' = TRUE
    /\ NewRun
    /\ UNCHANGED <<transcript, edits, duration_input, call>>

\* faulty variant: the transcript is not stripped before the test
transcript_missing_NoStrip(text) == text = ""

\* line 502: not transcript.strip()
transcript_missing(text) == strip(text) = ""

\* lines 505-511: the duration handed to score_transcript, and whether the
\* warning is shown
parse_duration(input) ==
    IF strip(input) # ""
    THEN IF float(input) = ValueError
         THEN [duration_seconds |-> None, warning |-> TRUE]
         ELSE [duration_seconds |-> float(input), warning |-> FALSE]
    ELSE [duration_seconds |-> None, warning |-> FALSE]

\* the run of a click reaches "if score_button:" (lines 501-514).  An
\* exception leaving score_transcript ends the run: Streamlit shows the
\* exception and there is no result.  The button reads False in the next run.
ScoreHandler ==
    /\ score_button
    /\ score_button' = FALSE
    /\ UNCHANGED <<transcript, edits, duration_input, call>>
    /\ IF transcript_missing(transcript)
       THEN /\ view' = "error"
            /\ UNCHANGED <<warning, collab, result>>
       ELSE LET parsed == parse_duration(duration_input)
                called == compute_word_count(transcript) > 0
            IN  \E check \in IF called THEN GrammarOutcomes ELSE {NotCalled} :
                \E polarity \in IF Failed(check) THEN {NotCalled} ELSE SentimentOutcomes :
                  LET r == score_transcript(transcript, parsed.duration_seconds,
                                            check, polarity)
                  IN  /\ warning' = parsed.warning
                      /\ collab' = [grammar |-> check, sentiment |-> polarity]
                      /\ view' = IF IsRaised(r) THEN "exception" ELSE "scored"
                      /\ result' = IF IsRaised(r) THEN None ELSE r

Next == EditTranscript \/ EditDuration \/ ClickScore \/ ScoreHandler

Spec == Init /\ [][Next]_vars

(***************************************************************************)
(* Direct calls of get_speech_rate_score: every word count up to MaxWords  *)
(* with every duration of RateDurations.                                   *)
(***************************************************************************)

MaxWords == 165

MaxSeconds == 62

RateDurations ==
    {None, NaN, Inf(1), Inf(-1)} \cup {Num(sec, 1) : sec \in -1..MaxSeconds}

\* the widgets as the script leaves them when no one has touched them
Untouched ==
    /\ edits = 0
    /\ duration_input = ""
    /\ score_button = FALSE
    /\ view = "none"
    /\ warning = FALSE
    /\ collab = NoCollab
    /\ result = None

InitRate ==
    /\ transcript = ""
    /\ Untouched
    /\ \E w \in 0..MaxWords, d \in RateDurations :
          call = [fn |-> "get_speech_rate_score", word_count |-> w,
                  duration_seconds |-> d, returned |-> FALSE, ret |-> None]

CallSpeechRate ==
    /\ ~call.returned
    /\ call' = [call EXCEPT
                  !.returned = TRUE,
                  !.ret = get_speech_rate_score(call.word_count, call.duration_seconds)]
    /\ UNCHANGED <<transcript, edits, duration_input, score_button, view, warning,
                   collab, result>>

NextRate == CallSpeechRate

SpecRate == InitRate /\ [][NextRate]_vars

(***************************************************************************)
(* Direct calls of the rubric functions of a text: every text of at most   *)
(* MaxLen characters of Alphabet, and longer texts made of counted words.  *)
(***************************************************************************)

MaxLen == 4

Alphabet == {"u", "m", "U", " ", ","}

RECURSIVE Strings(_)
Strings(n) ==
    IF n = 0 THEN {""}
    ELSE LET shorter == Strings(n - 1)
         IN  shorter \cup {t \o c : t \in shorter, c \in Alphabet}

\* s repeated n times
RECURSIVE Rep(_, _)
Rep(s, n) ==
    IF n = 0 THEN ""
    ELSE IF n % 2 = 0 THEN LET half == Rep(s, n \div 2) IN half \o half
    ELSE s \o Rep(s, n - 1)

\* f filler words
Fillers(f) == Rep("Um, ", f)

\* n words that differ in case only
Plain(n) == Rep("x X ", n \div 2) \o (IF n % 2 = 1 THEN "x " ELSE "")

\* k words, no two alike
RECURSIVE Distinct(_)
Distinct(k) == IF k = 0 THEN "" ELSE Distinct(k - 1) \o Rep("a", k) \o ". "

MaxFillers == 4

MaxPlain == 100

MaxDistinct == 10

SampleTexts ==
    Strings(MaxLen)
        \cup {Fillers(f) \o Plain(n) : f \in 0..MaxFillers, n \in 0..MaxPlain}
        \cup {Plain(n) \o Distinct(k) : n \in 0..MaxDistinct, k \in 0..MaxDistinct}

InitText ==
    /\ transcript \in SampleTexts
    /\ Untouched
    /\ call = None

CallClarity ==
    /\ call = None
    /\ call' = [fn |-> "get_clarity_score", ret |-> get_clarity_score(transcript)]
    /\ UNCHANGED <<transcript, edits, duration_input, score_button, view, warning,
                   collab, result>>

CallVocabulary ==
    /\ call = None
    /\ call' = [fn |-> "get_vocabulary_score", ret |-> get_vocabulary_score(transcript)]
    /\ UNCHANGED <<transcript, edits, duration_input, score_button, view, warning,
                   collab, result>>

NextText == CallClarity \/ CallVocabulary

SpecText == InitText /\ [][NextText]_vars

(***************************************************************************)
(* Direct calls of get_flow_score: every text made of at most MaxPieces    *)
(* of the pieces below, in any order and with repetition.                  *)
(***************************************************************************)

MaxPieces == 4

\* a salutation, a basic detail, an additional detail, a closing, a word
\* that holds "hi" inside, and a word of no group
Pieces == {"Hi ", "I am Al. ", "My GOAL. ", "Thank you. ", "This ", "x "}

RECURSIVE PieceTexts(_)
PieceTexts(n) ==
    IF n = 0 THEN {""}
    ELSE LET shorter == PieceTexts(n - 1)
         IN  shorter \cup {t \o piece : t \in shorter, piece \in Pieces}

InitFlow ==
    /\ transcript \in PieceTexts(MaxPieces)
    /\ Untouched
    /\ call = None

CallFlow ==
    /\ call = None
    /\ call' = [fn |-> "get_flow_score", ret |-> get_flow_score(transcript)]
    /\ UNCHANGED <<transcript, edits, duration_input, score_button, view, warning,
                   collab, result>>

NextFlow == CallFlow

SpecFlow == InitFlow /\ [][NextFlow]_vars

(***************************************************************************)
(* Direct calls of get_grammar_score: every word count up to               *)
(* MaxGrammarWords with every number of issues up to MaxGrammarIssues      *)
(* reported by grammar_tool.check.  For these inputs the double-precision  *)
(* grammar_quality of the code falls in the same band as the exact         *)
(* fraction (the first input where it does not is 7 issues in 100 words:   *)
(* 0.29999999999999993, scored 2).                                         *)
(***************************************************************************)

MaxGrammarWords == 40

MaxGrammarIssues == 5

InitGrammar ==
    /\ transcript = ""
    /\ Untouched
    /\ \E w \in 0..MaxGrammarWords, n \in 0..MaxGrammarIssues :
          call = [fn |-> "get_grammar_score", word_count |-> w, issues |-> n,
                  returned |-> FALSE, ret |-> None]

CallGrammar ==
    /\ ~call.returned
    /\ call' = [call EXCEPT
                  !.returned = TRUE,
                  !.ret = get_grammar_score(transcript, call.word_count,
                                            Ok(call.issues))]
    /\ UNCHANGED <<transcript, edits, duration_input, score_button, view, warning,
                   collab, result>>

NextGrammar == CallGrammar

SpecGrammar == InitGrammar /\ [][NextGrammar]_vars
(***************************************************************************)
(* Properties of the scoring run (checked under Spec)                      *)
(***************************************************************************)

\* true of a text with no character other than whitespace
Blank(text) == \A i \in 1..Len(text) : At(text, i) \in WhitespaceChars

\* the final_score of category i of a result
Final(r, i) == r.criteria[i].final_score

\* C1: in every result score_transcript returns, overall_score is within
\* [0,100] and is the sum of the final scores of the five categories
\* (Content & Structure, Speech Rate, Language & Grammar, Clarity,
\* Engagement, in this order), the Speech Rate one being 0 when it is unscored.
C1_OverallIsSumOfCategories ==
    result # None =>
        /\ Len(result.criteria) = 5
        /\ <<result.criteria[1].name, result.criteria[2].name, result.criteria[3].name,
             result.criteria[4].name, result.criteria[5].name>>
             = <<"Content & Structure", "Speech Rate", "Language & Grammar",
                 "Clarity", "Engagement">>
        /\ result.overall_score >= 0
        /\ result.overall_score <= 100
        /\ result.overall_score =
             Final(result, 1) + Final(result, 2) + Final(result, 3)
                + Final(result, 4) + Final(result, 5)
        /\ (result.criteria[2].wpm = None => Final(result, 2) = 0)

\* a result whose speech rate is scored and adds to the overall score
C1_Witness ==
    /\ result # None
    /\ result.criteria[2].wpm # None
    /\ Final(result, 2) > 0
    /\ Final(result, 1) > 0
    /\ result.overall_score > Final(result, 1) + Final(result, 3)

\* C2: in every result, each category's final_score is at most its declared
\* maximum (40, 10, 20, 15, 15) and is the sum of its sub-item scores
\* (salutation + keyword_presence + flow; grammar + vocabulary;
\* filler_words; sentiment), and no sub-item score exceeds its max_score.
C2_CategoriesWithinMaxima ==
    result # None =>
        LET cs == result.criteria[1].subcomponents
            lg == result.criteria[3].subcomponents
            cl == result.criteria[4].subcomponents
            en == result.criteria[5].subcomponents
        IN  /\ <<result.criteria[1].max_score, result.criteria[2].max_score,
                 result.criteria[3].max_score, result.criteria[4].max_score,
                 result.criteria[5].max_score>> = <<40, 10, 20, 15, 15>>
            /\ \A i \in 1..5 : Final(result, i) <= result.criteria[i].max_score
            /\ Final(result, 1)
                 = cs.salutation.score + cs.keyword_presence.score + cs.flow.score
            /\ Final(result, 3) = lg.grammar.score + lg.vocabulary.score
            /\ Final(result, 4) = cl.filler_words.score
            /\ Final(result, 5) = en.sentiment.score
            /\ cs.salutation.score <= cs.salutation.max_score
            /\ cs.keyword_presence.score <= cs.keyword_presence.max_score
            /\ cs.flow.score <= cs.flow.max_score
            /\ lg.grammar.score <= lg.grammar.max_score
            /\ lg.vocabulary.score <= lg.vocabulary.max_score
            /\ cl.filler_words.score <= cl.filler_words.max_score
            /\ en.sentiment.score <= en.sentiment.max_score

\* a result in which two categories reach their maxima and both sub-items
\* of Language & Grammar count
C2_Witness ==
    /\ result # None
    /\ Final(result, 3) = 20
    /\ result.criteria[3].subcomponents.vocabulary.score = 10
    /\ Final(result, 5) = 15
    /\ Final(result, 1) > 0

\* C3: a click on the score button with an empty or whitespace-only
\* transcript is refused: the run shows the error, which no scored run shows,
\* and produces no result.
C3_BlankTranscriptRefused ==
    /\ (view # "none" /\ Blank(transcript)) => (view = "error" /\ result = None)
    /\ view = "error" => (Blank(transcript) /\ result = None)
    /\ result # None => (view = "scored" /\ ~Blank(transcript))

\* the handler has refused a transcript of two spaces
C3_Witness ==
    /\ view = "error"
    /\ transcript = "  "
    /\ result = None

\* C4 (as claimed): when the grammar or the sentiment collaborator fails
\* during a scoring call, a result is still returned, the affected sub-score
\* is its lowest band and the result carries a degraded flag.
C4_CollaboratorFailureDegrades ==
    (Failed(collab.grammar) \/ Failed(collab.sentiment)) =>
        /\ view = "scored"
        /\ result # None
        /\ "degraded" \in DOMAIN result
        /\ (Failed(collab.grammar) =>
               result.criteria[3].subcomponents.grammar.score = 2)
        /\ (Failed(collab.sentiment) =>
               result.criteria[5].subcomponents.sentiment.score = 3)

\* the duration the handler derives from the duration field is missing, zero
\* or negative
Unscorable(d) == d = None \/ (d.k = "num" /\ d.n <= 0) \/ (d.k = "inf" /\ d.n < 0)

\* the categories of r other than Speech Rate
OtherCategories(r) == <<r.criteria[1], r.criteria[3], r.criteria[4], r.criteria[5]>>

\* C5: when the duration is absent, zero or negative, get_speech_rate_score
\* returns a null score and a null words-per-minute for every word count;
\* the run is no error: with working collaborators it shows a result, whose
\* Speech Rate category has final_score 0, wpm null and max_score 10 and adds
\* 0 to the overall score, and whose other categories are those the same
\* call gives with a duration of 30 seconds.
C5_NoDurationUnscored ==
    LET d == parse_duration(duration_input).duration_seconds
    IN  (view \in {"scored", "exception"} /\ Unscorable(d)) =>
          /\ \A w \in 0..MaxWords :
                /\ get_speech_rate_score(w, d).score = None
                /\ get_speech_rate_score(w, d).wpm = None
          /\ (~Failed(collab.grammar) /\ ~Failed(collab.sentiment)) => view = "scored"
          /\ view = "scored" =>
                /\ Final(result, 2) = 0
                /\ result.criteria[2].wpm = None
                /\ result.criteria[2].max_score = 10
                /\ result.overall_score =
                     Final(result, 1) + Final(result, 3) + Final(result, 4)
                        + Final(result, 5)
                /\ OtherCategories(result) =
                     OtherCategories(score_transcript(transcript, Num(30, 1),
                                         collab.grammar, collab.sentiment))

\* a scored run with a negative duration and a transcript with words
C5_Witness ==
    /\ view = "scored"
    /\ duration_input = "-1.5"
    /\ result.word_count > 0
    /\ result.criteria[2].wpm = None
    /\ result.overall_score > 0
(***************************************************************************)
(* Properties of get_speech_rate_score (checked under SpecRate)            *)
(***************************************************************************)

\* a duration above zero
Positive(d) == d # None /\ ((d.k = "num" /\ d.n > 0) \/ (d.k = "inf" /\ d.n > 0))

\* 60 * w / d compared with a whole number of words per minute, for a
\* duration d = d.n / d.d above zero (an infinite one gives 0 wpm)
WpmAtLeast(w, d, bound) == d.k = "num" /\ 60 * w * d.d >= bound * d.n

WpmAtMost(w, d, bound) == d.k = "inf" \/ 60 * w * d.d <= bound * d.n

\* C6: for every word count and positive duration with
\* 111 <= wpm <= 140, wpm = wordCount / (duration/60), the call returns
\* score 10 with the "Ideal" feedback; it returns score 10 for no other wpm.
C6_IdealBand ==
    (call.returned /\ Positive(call.duration_seconds)) =>
        LET w == call.word_count
            d == call.duration_seconds
            ideal == WpmAtLeast(w, d, 111) /\ WpmAtMost(w, d, 140)
        IN  /\ ideal => (call.ret.score = Some(10)
                           /\ call.ret.feedback = "Ideal (111-140 WPM).")
            /\ call.ret.score = Some(10) => ideal

\* 120 words in 60 seconds are scored 10, "Ideal"
C6_Witness ==
    /\ call.returned
    /\ call.word_count = 120
    /\ call.duration_seconds = Num(60, 1)
    /\ call.ret.wpm = Num(120, 1)
    /\ call.ret.score = Some(10)
    /\ call.ret.feedback = "Ideal (111-140 WPM)."

\* C9 (as claimed): for every word count and positive duration, the
\* "Too slow" result is returned only when wpm < 81, and the "Too fast"
\* result for every wpm > 161.
C9_TooSlowOnlyBelow81 ==
    (call.returned /\ Positive(call.duration_seconds)) =>
        LET w == call.word_count
            d == call.duration_seconds
        IN  /\ call.ret.feedback = "Too slow (<80 WPM)." => ~WpmAtLeast(w, d, 81)
            /\ ~WpmAtMost(w, d, 161) =>
                  (call.ret.score = Some(2)
                     /\ call.ret.feedback = "Too fast (>161 WPM).")

(***************************************************************************)
(* Properties of get_clarity_score and get_vocabulary_score (checked under *)
(* SpecText).  The word tokens of a text are counted here from its runs of *)
(* word characters, each run lower-cased.                                  *)
(***************************************************************************)

Runs(text) == findall_words(text)

FillerRuns(text) ==
    Cardinality({i \in 1..Len(Runs(text)) : lower(Runs(text)[i]) \in FILLER_WORDS})

Types(text) ==
    Cardinality({lower(Runs(text)[i]) : i \in 1..Len(Runs(text))})

Called(fn) == call # None /\ call.fn = fn

\* C7: a transcript with at least one word token whose filler rate
\* fillerCount/wordCount*100 is at most 3 (3 fillers in 100 tokens included)
\* gets clarity score 15; a transcript with no word token gets 0.
C7_FewFillersScore15 ==
    Called("get_clarity_score") =>
        LET word_count == Len(Runs(transcript))
            filler_count == FillerRuns(transcript)
        IN  /\ (word_count >= 1 /\ filler_count * 100 <= 3 * word_count)
                  => call.ret.score = 15
            /\ word_count = 0 => call.ret.score = 0

\* 3 fillers in 100 tokens: a filler rate of exactly 3, scored 15
C7_Witness ==
    /\ Called("get_clarity_score")
    /\ call.ret.filler_count = 3
    /\ call.ret.filler_rate = Num(3, 1)
    /\ Len(Runs(transcript)) = 100
    /\ call.ret.score = 15

\* C8: for a transcript with at least one word token, the type-token ratio
\* is the number of distinct lower-cased tokens over the number of tokens
\* (tokens that differ only in case are one type); the vocabulary score is
\* 10 when all tokens are distinct and 2 when the ratio is below 0.3.
C8_VocabularyBands ==
    Called("get_vocabulary_score") =>
        LET total == Len(Runs(transcript))
            types == Types(transcript)
        IN  total >= 1 =>
              /\ call.ret.ttr = Num(types, total)
              /\ types = total => call.ret.score = 10
              /\ 10 * types < 3 * total => call.ret.score = 2

\* 10 tokens that differ in case only: one type, ratio 0.1, score 2
C8_Witness ==
    /\ Called("get_vocabulary_score")
    /\ transcript = Plain(10)
    /\ Len(Runs(transcript)) = 10
    /\ Cardinality({Runs(transcript)[i] : i \in 1..10}) = 2
    /\ call.ret.ttr = Num(1, 10)
    /\ call.ret.score = 2

\* C10 (as claimed): for a transcript with at least one word token, the
\* clarity score is 3 only when the filler rate is 13 or above; every filler
\* rate below 13 gives one of 15, 12, 9, 6.
C10_LowestOnlyFrom13 ==
    Called("get_clarity_score") =>
        LET word_count == Len(Runs(transcript))
            filler_count == FillerRuns(transcript)
        IN  word_count >= 1 =>
              /\ call.ret.score = 3 => filler_count * 100 >= 13 * word_count
              /\ filler_count * 100 < 13 * word_count
                    => call.ret.score \in {15, 12, 9, 6}

(***************************************************************************)
(* Properties of get_flow_score (checked under SpecFlow).  The phrase      *)
(* groups are taken as sets and their occurrences are read off the         *)
(* lower-cased text position by position.                                  *)
(***************************************************************************)

SalutationGroup ==
    {"hi", "hello", "good morning", "good afternoon", "good evening", "good day",
     "hello everyone", "hi everyone"}

BasicGroup == {"my name is", "i am", "i'm", "years old", "school", "class", "grade"}

AdditionalGroup == {"hobby", "hobbies", "fun fact", "goal", "dream", "family"}

ClosingGroup == {"thank you", "thanks for listening", "that's all", "that is all"}

\* the 0-based positions of tl at which a phrase of the group starts
Occurrences(tl, group) ==
    {i \in 0..(Len(tl) - 1) :
        \E p \in group : i + Len(p) <= Len(tl) /\ SubSeq(tl, i + 1, i + Len(p)) = p}

\* the four groups occur in the text, and their earliest occurrences are in order
InOrder(text) ==
    LET tl == lower(text)
        sal == Occurrences(tl, SalutationGroup)
        basic == Occurrences(tl, BasicGroup)
        additional == Occurrences(tl, AdditionalGroup)
        closing == Occurrences(tl, ClosingGroup)
    IN  /\ sal # {} /\ basic # {} /\ additional # {} /\ closing # {}
        /\ Min(sal) <= Min(basic)
        /\ Min(basic) <= Min(additional)
        /\ Min(additional) <= Min(closing)

C12_GrammarScoreMonotone ==
    (call.returned /\ call.word_count > 0) =>
        /\ call.issues = 0 => call.ret.score = 10
        /\ \A fewer \in 0..call.issues :
              get_grammar_score(transcript, call.word_count, Ok(fewer)).score
                 >= call.ret.score
====
